---------------------------- MODULE Spec2Model ----------------------------
(***************************************************************************)
(* Model of the store_manager persistence layer (src/src/db.rs), the HTTP  *)
(* handlers that wrap it (src/src/api.rs), the entity shapes               *)
(* (src/src/structs.rs), the snapshot import and export                    *)
(* (src/src/db_filler.rs) and the process around them (src/src/main.rs,    *)
(* src/src/server.rs).                                                     *)
(*                                                                         *)
(* The SQLite store is modelled by its two tables (id -> row), the two     *)
(* AUTOINCREMENT counters of sqlite_sequence, and the semantics of the     *)
(* statements the code sends: NOT NULL and FOREIGN KEY constraints,        *)
(* `=` on NULL, and LIKE with its wildcards and ASCII case folding.        *)
(*                                                                         *)
(* An Option<T> is a sequence of length 0 (None) or 1 (Some(v)); a column  *)
(* value is likewise NULL (<<>>) or <<v>>.  Strings that are matched with  *)
(* LIKE are sequences of one-character strings; other text is opaque.      *)
(***************************************************************************)
EXTENDS Integers, Sequences, FiniteSets, TLC

VARIABLES
    employees,      \* table employees: id -> row (column -> SQL value)
    products,       \* table products:  id -> row
    employees_seq,  \* sqlite_sequence entry of employees (AUTOINCREMENT)
    products_seq,   \* sqlite_sequence entry of products
    pre,            \* the store as it was when the call under way began
    last,           \* the call under way: operation, argument, result
    focus,          \* the columns the enumerated inputs vary in
    step,           \* the calls of the scenario made so far
    proc,           \* the process (main.rs): its position, files, outcomes
    calls           \* the requests being handled concurrently

vars ==
    <<employees, products, employees_seq, products_seq, pre, last, focus,
      step, proc, calls>>

(***************************************************************************)
(* Bounds                                                                  *)
(***************************************************************************)
\* Largest id the AUTOINCREMENT counters may reach.
MaxId == 2

(***************************************************************************)
(* Option<T> and SQL NULL                                                  *)
(***************************************************************************)
None == <<>>
Some(v) == <<v>>
NULL == <<>>

\* The cast `v as u32` of an i64 read from the store.  The store holds only
\* what a u32 was bound to, so v is never negative, and of a v from 0 to
\* 2^32 - 1 the cast is v itself; for a negative v it is left undefined.
AsU32(v) == CASE v >= 0 -> v

(***************************************************************************)
(* Entities (structs.rs)                                                   *)
(***************************************************************************)
\* Columns of `employees` after id, in the order of CREATE TABLE
EmployeeColumns ==
    <<"name", "surname", "position", "department", "shift", "salary",
      "phone_number", "email", "status", "note", "hire_date">>

\* Columns of `products` after id, in the order of CREATE TABLE
ProductColumns ==
    <<"name", "category", "quantity", "status", "bar_code", "cost_price",
      "sell_price", "description", "brand", "supplier", "employee_id",
      "date_added", "date_remove">>

\* As EmployeeNotNull, with surname left nullable
EmployeeNotNull_SurnameNullable == {"name", "position"}

\* NOT NULL columns of the two tables
EmployeeNotNull == {"name", "surname", "position"}

ProductNotNull ==
    {"name", "category", "quantity", "bar_code", "cost_price", "sell_price"}

\* Rust type of every field
EmployeeType ==
    [id |-> "u32", name |-> "String", surname |-> "String",
     position |-> "String", department |-> "String", shift |-> "String",
     salary |-> "f64", phone_number |-> "String", email |-> "String",
     status |-> "bool", note |-> "String", hire_date |-> "NaiveDate"]

ProductType ==
    [id |-> "u32", name |-> "String", category |-> "String",
     quantity |-> "u32", status |-> "bool", bar_code |-> "i64",
     cost_price |-> "f64", sell_price |-> "f64", description |-> "String",
     brand |-> "String", supplier |-> "String", employee_id |-> "u32",
     date_added |-> "NaiveDate", date_remove |-> "NaiveDate"]

Employee_new_empty ==
    [id |-> None, name |-> None, surname |-> None, position |-> None,
     department |-> None, shift |-> None, salary |-> None,
     phone_number |-> None, email |-> None, status |-> None, note |-> None,
     hire_date |-> None]

Product_new_empty ==
    [id |-> None, name |-> None, category |-> None, quantity |-> None,
     status |-> None, bar_code |-> None, cost_price |-> None,
     sell_price |-> None, description |-> None, brand |-> None,
     supplier |-> None, employee_id |-> None, date_added |-> None,
     date_remove |-> None]

Range(s) == {s[i] : i \in DOMAIN s}


Max(a, b) == IF a >= b THEN a ELSE b

RECURSIVE SortedIds(_)
\* The ids of S in ascending order: the order of a scan of a rowid table
SortedIds(S) ==
    IF S = {} THEN <<>>
    ELSE LET m == CHOOSE x \in S : \A y \in S : x <= y
         IN  <<m>> \o SortedIds(S \ {m})

(***************************************************************************)
(* Values on their way into and out of the store                           *)
(***************************************************************************)
Digits == <<"0", "1", "2", "3", "4", "5", "6", "7", "8", "9">>

Dig(n) == Digits[(n % 10) + 1]

DigVal(c) == CHOOSE n \in 0..9 : Digits[n + 1] = c

\* NaiveDate -> TEXT "YYYY-MM-DD" (the store keeps dates as text)
FormatDate(d) ==
    <<Dig(d.y \div 1000), Dig(d.y \div 100), Dig(d.y \div 10), Dig(d.y), "-",
      Dig(d.m \div 10), Dig(d.m), "-", Dig(d.d \div 10), Dig(d.d)>>

\* TEXT "YYYY-MM-DD" -> NaiveDate
ParseDate(t) ==
    [y |-> DigVal(t[1]) * 1000 + DigVal(t[2]) * 100 + DigVal(t[3]) * 10
           + DigVal(t[4]),
     m |-> DigVal(t[6]) * 10 + DigVal(t[7]),
     d |-> DigVal(t[9]) * 10 + DigVal(t[10])]

\* A bound parameter: bool -> INTEGER 0/1, date -> TEXT, numbers and text as is
EncodeVal(ty, v) ==
    CASE ty = "bool" -> (IF v THEN 1 ELSE 0)
      [] ty = "NaiveDate" -> FormatDate(v)
      [] OTHER -> v

\* As Encode, with an unset bool bound as 0
Encode_UnsetIsFalse(ty, o) ==
    IF o = None THEN (IF ty = "bool" THEN <<0>> ELSE NULL)
    ELSE <<EncodeVal(ty, o[1])>>

\* .bind(Option<T>): None binds NULL
Encode(ty, o) == IF o = None THEN NULL ELSE <<EncodeVal(ty, o[1])>>

\* row.get of a column: NULL reads None; INTEGER status reads v == 1,
\* INTEGER ids and counts are cast `as u32`, TEXT dates are parsed
DecodeVal(ty, s) ==
    CASE ty = "bool" -> (s = 1)
      [] ty = "u32" -> AsU32(s)
      [] ty = "NaiveDate" -> ParseDate(s)
      [] OTHER -> s

Decode(ty, c) == IF c = NULL THEN None ELSE Some(DecodeVal(ty, c[1]))

(***************************************************************************)
(* SQLite's LIKE: % is any run of characters, _ is any one character, and  *)
(* ASCII letters match without regard to case                              *)
(***************************************************************************)
UpperCase ==
    <<"A", "B", "C", "D", "E", "F", "G", "H", "I", "J", "K", "L", "M",
      "N", "O", "P", "Q", "R", "S", "T", "U", "V", "W", "X", "Y", "Z">>

LowerCase ==
    <<"a", "b", "c", "d", "e", "f", "g", "h", "i", "j", "k", "l", "m",
      "n", "o", "p", "q", "r", "s", "t", "u", "v", "w", "x", "y", "z">>

Fold(c) ==
    IF \E i \in DOMAIN UpperCase : UpperCase[i] = c
    THEN LowerCase[CHOOSE i \in DOMAIN UpperCase : UpperCase[i] = c]
    ELSE c

RECURSIVE Like(_, _)
Like(p, s) ==
    IF p = <<>> THEN s = <<>>
    ELSE IF Head(p) = "%"
         THEN Like(Tail(p), s) \/ (s # <<>> /\ Like(p, Tail(s)))
         ELSE /\ s # <<>>
              /\ (Head(p) = "_" \/ Fold(Head(p)) = Fold(Head(s)))
              /\ Like(Tail(p), Tail(s))

\* As SqlEq, but a NULL column passes the test
SqlEq_NullPasses(c, a) == c = NULL \/ c[1] = a

\* column = ?   (NULL = anything is not true)
SqlEq(c, a) == c # NULL /\ c[1] = a

\* column LIKE ?
SqlLike(c, p) == c # NULL /\ Like(p, c[1])

(***************************************************************************)
(* The filter query: SELECT * FROM t WHERE 1=1 [AND column op ?]...        *)
(***************************************************************************)
EmployeeLike == {"name", "surname", "note"}

ProductLike == {"name", "description"}

\* As EmployeeFilterOrder, with the id tested last
EmployeeFilterOrder_IdLast == EmployeeColumns \o <<"id">>

\* The order in which get_employees / get_products test the fields
EmployeeFilterOrder == <<"id">> \o EmployeeColumns

ProductFilterOrder == <<"id">> \o ProductColumns

\* As LikePattern, without the wildcards around the string
LikePattern_Bare(s) == s

\* format!("%{}%", s)
LikePattern(s) == <<"%">> \o s \o <<"%">>

RECURSIVE FilterQuery(_, _, _, _)
\* conds: the ` AND column op ?` pushed onto the query string, in the order
\* pushed; args: the arguments added, in the order added
FilterQuery(e, order, like, ty) ==
    IF order = <<>> THEN [conds |-> <<>>, args |-> <<>>]
    ELSE LET f == Head(order)
             rest == FilterQuery(e, Tail(order), like, ty)
             Push(op, arg) ==
                 [conds |-> <<[col |-> f, op |-> op]>> \o rest.conds,
                  args |-> <<arg>> \o rest.args]
         IN  IF e[f] = None THEN rest
             ELSE IF f \in like
                  THEN IF e[f][1] = <<>> THEN rest
                       ELSE Push("LIKE", LikePattern(e[f][1]))
                  ELSE Push("=", EncodeVal(ty[f], e[f][1]))

\* Whether the row with this id passes every condition of the query: the
\* k-th argument is bound to the k-th placeholder
RowMatches(id, row, q) ==
    \A k \in DOMAIN q.conds :
        LET c == IF q.conds[k].col = "id" THEN <<id>> ELSE row[q.conds[k].col]
        IN  IF q.conds[k].op = "LIKE" THEN SqlLike(c, q.args[k])
            ELSE SqlEq(c, q.args[k])

\* fetch_all: the ids of the matching rows, in rowid order
FetchAll(tbl, q) == SortedIds({i \in DOMAIN tbl : RowMatches(i, tbl[i], q)})

EmployeeFromRow(id, row) ==
    [id |-> Some(AsU32(id)),
     name |-> Decode("String", row.name),
     surname |-> Decode("String", row.surname),
     position |-> Decode("String", row.position),
     department |-> Decode("String", row.department),
     shift |-> Decode("String", row.shift),
     salary |-> Decode("f64", row.salary),
     phone_number |-> Decode("String", row.phone_number),
     email |-> Decode("String", row.email),
     status |-> Decode("bool", row.status),
     note |-> Decode("String", row.note),
     hire_date |-> Decode("NaiveDate", row.hire_date)]

ProductFromRow(id, row) ==
    [id |-> Some(AsU32(id)),
     name |-> Decode("String", row.name),
     category |-> Decode("String", row.category),
     quantity |-> Decode("u32", row.quantity),
     status |-> Decode("bool", row.status),
     bar_code |-> Decode("i64", row.bar_code),
     cost_price |-> Decode("f64", row.cost_price),
     sell_price |-> Decode("f64", row.sell_price),
     description |-> Decode("String", row.description),
     brand |-> Decode("String", row.brand),
     supplier |-> Decode("String", row.supplier),
     employee_id |-> Decode("u32", row.employee_id),
     date_added |-> Decode("NaiveDate", row.date_added),
     date_remove |-> Decode("NaiveDate", row.date_remove)]

\* StoreDB::get_employees: the Vec<Employee> returned
get_employees(tbl, employee) ==
    LET q == FilterQuery(employee, EmployeeFilterOrder, EmployeeLike,
                         EmployeeType)
        ids == FetchAll(tbl, q)
    IN  [k \in 1..Len(ids) |-> EmployeeFromRow(ids[k], tbl[ids[k]])]

\* StoreDB::get_products: the Vec<Product> returned
get_products(tbl, product) ==
    LET q == FilterQuery(product, ProductFilterOrder, ProductLike, ProductType)
        ids == FetchAll(tbl, q)
    IN  [k \in 1..Len(ids) |-> ProductFromRow(ids[k], tbl[ids[k]])]

(***************************************************************************)
(* The store's constraints                                                 *)
(***************************************************************************)
\* The pool is opened by connect("sqlite:store.db") with sqlx's default
\* connect options, which switch PRAGMA foreign_keys ON: the FOREIGN KEY
\* clause of CREATE TABLE products is enforced on every statement.
ForeignKeysOn == TRUE

\* Whether every product row references an employee row (or none)
ForeignKeyHolds(emps, prods) ==
    \A p \in DOMAIN prods :
        \/ prods[p].employee_id = NULL
        \/ prods[p].employee_id[1] \in DOMAIN emps

\* AUTOINCREMENT: one more than the largest rowid the table ever held
NextRowId(tbl, seq) ==
    LET top == IF DOMAIN tbl = {} THEN 0
               ELSE CHOOSE x \in DOMAIN tbl : \A y \in DOMAIN tbl : y <= x
    IN  Max(seq, top) + 1

(***************************************************************************)
(* INSERT                                                                  *)
(***************************************************************************)
\* The eleven values bound to INSERT INTO employees; id is not among them
EmployeeInsertRow(employee) ==
    [c \in Range(EmployeeColumns) |-> Encode(EmployeeType[c], employee[c])]

\* The thirteen values bound to INSERT INTO products; id is not among them
ProductInsertRow(product) ==
    [c \in Range(ProductColumns) |-> Encode(ProductType[c], product[c])]

\* As add_employee_to_store_db, with the id of the entity bound to the id
\* column: a taken id is a PRIMARY KEY conflict
add_employee_to_store_db_ClientId(tbl, seq, employee) ==
    LET row == EmployeeInsertRow(employee)
        id == IF employee.id = None THEN NextRowId(tbl, seq)
              ELSE employee.id[1]
    IN  IF (\E c \in EmployeeNotNull : row[c] = NULL) \/ id \in DOMAIN tbl
        THEN [res |-> "Err", tbl |-> tbl, seq |-> seq, executed |-> TRUE]
        ELSE [res |-> "Ok", tbl |-> (id :> row) @@ tbl, seq |-> Max(seq, id),
              executed |-> TRUE]

\* StoreDB::add_employee_to_store_db
add_employee_to_store_db(tbl, seq, employee) ==
    LET row == EmployeeInsertRow(employee)
        id == NextRowId(tbl, seq)
    IN  IF \E c \in EmployeeNotNull : row[c] = NULL
        THEN [res |-> "Err", tbl |-> tbl, seq |-> seq, executed |-> TRUE]
        ELSE [res |-> "Ok", tbl |-> (id :> row) @@ tbl, seq |-> id,
              executed |-> TRUE]

\* StoreDB::add_product_to_store_db
add_product_to_store_db(tbl, seq, emps, product) ==
    LET row == ProductInsertRow(product)
        id == NextRowId(tbl, seq)
        new == (id :> row) @@ tbl
    IN  IF \/ \E c \in ProductNotNull : row[c] = NULL
           \/ ForeignKeysOn /\ ~ForeignKeyHolds(emps, new)
        THEN [res |-> "Err", tbl |-> tbl, seq |-> seq, executed |-> TRUE]
        ELSE [res |-> "Ok", tbl |-> new, seq |-> id, executed |-> TRUE]

(***************************************************************************)
(* DELETE                                                                  *)
(***************************************************************************)
Without(tbl, ids) == [i \in DOMAIN tbl \ ids |-> tbl[i]]

\* As delete_employee, returning true whatever the count of rows affected
delete_employee_AlwaysTrue(tbl, prods, id) ==
    LET new == Without(tbl, {i \in DOMAIN tbl : i = id})
    IN  IF ForeignKeysOn /\ ~ForeignKeyHolds(new, prods)
        THEN [res |-> "Err", tbl |-> tbl, executed |-> TRUE]
        ELSE [res |-> "true", tbl |-> new, executed |-> TRUE]

\* StoreDB::delete_employee: DELETE FROM employees WHERE id = ?
delete_employee(tbl, prods, id) ==
    LET hit == {i \in DOMAIN tbl : i = id}
        new == Without(tbl, hit)
    IN  IF ForeignKeysOn /\ ~ForeignKeyHolds(new, prods)
        THEN [res |-> "Err", tbl |-> tbl, executed |-> TRUE]
        ELSE [res |-> IF Cardinality(hit) > 0 THEN "true" ELSE "false",
              tbl |-> new, executed |-> TRUE]

\* StoreDB::delete_product: DELETE FROM products WHERE id = ?
delete_product(tbl, id) ==
    LET hit == {i \in DOMAIN tbl : i = id}
    IN  [res |-> IF Cardinality(hit) > 0 THEN "true" ELSE "false",
         tbl |-> Without(tbl, hit), executed |-> TRUE]

(***************************************************************************)
(* UPDATE t SET column = ?, ... WHERE id = ?                               *)
(***************************************************************************)
\* The fields that are Some, in the order the code tests them
PresentColumns(e, cols) == SelectSeq(cols, LAMBDA c : e[c] # None)

\* updates: the `column = ?` assignments; args: a value per assignment,
\* then the id for WHERE id = ?
UpdateQuery(e, cols, ty) ==
    LET updates == PresentColumns(e, cols)
    IN  [updates |-> updates,
         args |-> [k \in 1..Len(updates) |->
                      EncodeVal(ty[updates[k]], e[updates[k]][1])]
                  \o <<e.id[1]>>]

\* As AssignRow, with the first assignment alone carried out
AssignRow_FirstOnly(row, q) ==
    [c \in DOMAIN row |->
        IF q.updates[1] = c THEN <<q.args[1]>> ELSE row[c]]

\* The row after the assignments of the query
AssignRow(row, q) ==
    [c \in DOMAIN row |->
        IF \E k \in DOMAIN q.updates : q.updates[k] = c
        THEN <<q.args[CHOOSE k \in DOMAIN q.updates : q.updates[k] = c]>>
        ELSE row[c]]

\* The rows the WHERE clause selects: the id is the last argument
UpdateTargets(tbl, q) == {i \in DOMAIN tbl : i = q.args[Len(q.args)]}

\* As ExecUpdate, without the WHERE clause
ExecUpdate_NoWhere(tbl, q) == [i \in DOMAIN tbl |-> AssignRow(tbl[i], q)]

\* The table after the statement has run
ExecUpdate(tbl, q) ==
    [i \in DOMAIN tbl |->
        IF i \in UpdateTargets(tbl, q) THEN AssignRow(tbl[i], q) ELSE tbl[i]]

\* As update_employee, but an entity without id updates every row
update_employee_AllWithoutId(tbl, employee) ==
    LET cols == PresentColumns(employee, EmployeeColumns)
        q == [updates |-> cols,
              args |-> [k \in 1..Len(cols) |->
                           EncodeVal(EmployeeType[cols[k]],
                                     employee[cols[k]][1])]]
        hit == IF employee.id = None THEN DOMAIN tbl
               ELSE {i \in DOMAIN tbl : i = employee.id[1]}
    IN  IF cols = <<>>
        THEN [res |-> "false", tbl |-> tbl, executed |-> FALSE]
        ELSE [res |-> IF hit # {} THEN "true" ELSE "false",
              tbl |-> [i \in DOMAIN tbl |->
                          IF i \in hit THEN AssignRow(tbl[i], q) ELSE tbl[i]],
              executed |-> TRUE]

\* As update_employee, without the test for an empty list of assignments:
\* "UPDATE employees SET  WHERE id = ?" is sent and the store rejects it
update_employee_NoEmptyCheck(tbl, employee) ==
    IF employee.id = None
    THEN [res |-> "false", tbl |-> tbl, executed |-> FALSE]
    ELSE LET q == UpdateQuery(employee, EmployeeColumns, EmployeeType)
         IN  IF q.updates = <<>>
             THEN [res |-> "Err", tbl |-> tbl, executed |-> TRUE]
             ELSE [res |-> IF Cardinality(UpdateTargets(tbl, q)) > 0
                           THEN "true" ELSE "false",
                   tbl |-> ExecUpdate(tbl, q), executed |-> TRUE]

\* StoreDB::update_employee
update_employee(tbl, employee) ==
    IF employee.id = None
    THEN [res |-> "false", tbl |-> tbl, executed |-> FALSE]
    ELSE LET q == UpdateQuery(employee, EmployeeColumns, EmployeeType)
         IN  IF q.updates = <<>>
             THEN [res |-> "false", tbl |-> tbl, executed |-> FALSE]
             ELSE [res |-> IF Cardinality(UpdateTargets(tbl, q)) > 0
                           THEN "true" ELSE "false",
                   tbl |-> ExecUpdate(tbl, q), executed |-> TRUE]

\* StoreDB::update_product
update_product(tbl, emps, product) ==
    IF product.id = None
    THEN [res |-> "false", tbl |-> tbl, executed |-> FALSE]
    ELSE LET q == UpdateQuery(product, ProductColumns, ProductType)
             new == ExecUpdate(tbl, q)
         IN  IF q.updates = <<>>
             THEN [res |-> "false", tbl |-> tbl, executed |-> FALSE]
             ELSE IF ForeignKeysOn /\ ~ForeignKeyHolds(emps, new)
                  THEN [res |-> "Err", tbl |-> tbl, executed |-> TRUE]
                  ELSE [res |-> IF Cardinality(UpdateTargets(tbl, q)) > 0
                                THEN "true" ELSE "false",
                        tbl |-> new, executed |-> TRUE]

(***************************************************************************)
(* HTTP handlers (api.rs)                                                  *)
(***************************************************************************)
\* As PutStatus, with every Ok answered 200
PutStatus_OkIs200(res) == IF res \in {"true", "false"} THEN 200 ELSE 500

\* The status a PUT /{id} handler answers for the store's result
PutStatus(res) ==
    CASE res = "true" -> 200
      [] res = "false" -> 404
      [] OTHER -> 500

\* The status a POST handler answers for the store's result
PostStatus(res) == IF res = "Ok" THEN 201 ELSE 500

\* The status a DELETE /{id} handler answers for the store's result
DeleteStatus(res) ==
    CASE res = "true" -> 204
      [] res = "false" -> 404
      [] OTHER -> 500

\* api::add_employee
api_add_employee(tbl, seq, emp) ==
    LET r == add_employee_to_store_db(tbl, seq, emp)
    IN  [res |-> r.res, tbl |-> r.tbl, seq |-> r.seq,
         executed |-> r.executed, status |-> PostStatus(r.res)]

\* api::add_product
api_add_product(tbl, seq, emps, prod) ==
    LET r == add_product_to_store_db(tbl, seq, emps, prod)
    IN  [res |-> r.res, tbl |-> r.tbl, seq |-> r.seq,
         executed |-> r.executed, status |-> PostStatus(r.res)]

\* api::delete_employee
api_delete_employee(tbl, prods, id) ==
    LET r == delete_employee(tbl, prods, id)
    IN  [res |-> r.res, tbl |-> r.tbl, executed |-> r.executed,
         status |-> DeleteStatus(r.res)]

\* api::delete_product
api_delete_product(tbl, id) ==
    LET r == delete_product(tbl, id)
    IN  [res |-> r.res, tbl |-> r.tbl, executed |-> r.executed,
         status |-> DeleteStatus(r.res)]

\* As api_update_employee, but an id in the body is kept
api_update_employee_BodyId(tbl, id, emp) ==
    LET r == update_employee(tbl, IF emp.id = None
                                  THEN [emp EXCEPT !.id = Some(id)] ELSE emp)
    IN  [res |-> r.res, tbl |-> r.tbl, executed |-> r.executed,
         status |-> PutStatus(r.res)]

\* api::update_employee: the id of the path replaces the id of the body
api_update_employee(tbl, id, emp) ==
    LET r == update_employee(tbl, [emp EXCEPT !.id = Some(id)])
    IN  [res |-> r.res, tbl |-> r.tbl, executed |-> r.executed,
         status |-> PutStatus(r.res)]

\* api::update_product
api_update_product(tbl, emps, id, prod) ==
    LET r == update_product(tbl, emps, [prod EXCEPT !.id = Some(id)])
    IN  [res |-> r.res, tbl |-> r.tbl, executed |-> r.executed,
         status |-> PutStatus(r.res)]

(***************************************************************************)
(* The snapshot file store_data.json (db_filler.rs)                         *)
(***************************************************************************)
\* serde_json of one field: None is null, a bool a JSON bool, a date the
\* string "YYYY-MM-DD", a number a JSON number, text a JSON string
ToJson(ty, o) ==
    IF o = None THEN [t |-> "null"]
    ELSE CASE ty = "bool" -> [t |-> "bool", v |-> o[1]]
           [] ty = "NaiveDate" -> [t |-> "string", v |-> FormatDate(o[1])]
           [] ty = "String" -> [t |-> "string", v |-> o[1]]
           [] OTHER -> [t |-> "number", v |-> o[1]]

\* The field read back from its JSON value
FromJson(ty, j) ==
    IF j.t = "null" THEN None
    ELSE IF ty = "NaiveDate" THEN Some(ParseDate(j.v))
    ELSE Some(j.v)

\* #[derive(Serialize, Deserialize)] of Employee and of Product
EmployeeToJson(e) == [f \in DOMAIN EmployeeType |-> ToJson(EmployeeType[f], e[f])]

EmployeeFromJson(j) ==
    [f \in DOMAIN EmployeeType |-> FromJson(EmployeeType[f], j[f])]

ProductToJson(e) == [f \in DOMAIN ProductType |-> ToJson(ProductType[f], e[f])]

ProductFromJson(j) ==
    [f \in DOMAIN ProductType |-> FromJson(ProductType[f], j[f])]

\* The file when there is none, and when it does not parse as StoreData
Absent == [kind |-> "absent"]

Malformed == [kind |-> "malformed"]

\* struct StoreData { employees, products } written as JSON
StoreData(es, ps) ==
    [kind |-> "data",
     employees |-> [k \in DOMAIN es |-> EmployeeToJson(es[k])],
     products |-> [k \in DOMAIN ps |-> ProductToJson(ps[k])]]

\* DBFiller::save_to_json: both tables are read whole and written to the
\* file.  fault is what goes wrong with the file: "none"; "create", when
\* File::create fails and the file stays as it was; "write", when the
\* created (truncated) file cannot be written.
save_to_json(emps, prods, old, fault) ==
    LET es == get_employees(emps, Employee_new_empty)
        ps == get_products(prods, Product_new_empty)
    IN  CASE fault = "create" -> [res |-> "Err", file |-> old]
          [] fault = "write" -> [res |-> "Err", file |-> Malformed]
          [] OTHER -> [res |-> "Ok", file |-> StoreData(es, ps)]

RECURSIVE LoadEmployees(_, _)
\* for employee in data.employees { db.add_employee_to_store_db(..)? }
LoadEmployees(t, es) ==
    IF es = <<>> THEN [res |-> "Ok", tables |-> t]
    ELSE LET r == add_employee_to_store_db(t.employees, t.employees_seq,
                                           EmployeeFromJson(Head(es)))
         IN  IF r.res = "Err" THEN [res |-> "Err", tables |-> t]
             ELSE LoadEmployees([t EXCEPT !.employees = r.tbl,
                                          !.employees_seq = r.seq],
                                Tail(es))

RECURSIVE LoadProducts(_, _)
\* for product in data.products { db.add_product_to_store_db(..)? }
LoadProducts(t, ps) ==
    IF ps = <<>> THEN [res |-> "Ok", tables |-> t]
    ELSE LET r == add_product_to_store_db(t.products, t.products_seq,
                                          t.employees,
                                          ProductFromJson(Head(ps)))
         IN  IF r.res = "Err" THEN [res |-> "Err", tables |-> t]
             ELSE LoadProducts([t EXCEPT !.products = r.tbl,
                                         !.products_seq = r.seq],
                               Tail(ps))

\* As load_from_json, with a missing file an error like any other
load_from_json_MissingIsError(t, file) ==
    CASE file.kind \in {"absent", "malformed"} -> [res |-> "Err", tables |-> t]
      [] OTHER ->
           LET e == LoadEmployees(t, file.employees)
           IN  IF e.res = "Err" THEN e
               ELSE LoadProducts(e.tables, file.products)

\* DBFiller::load_from_json into the store t: no file is no error, a file
\* that does not parse is one, and the first insert that fails ends the
\* import with the rows before it inserted
load_from_json(t, file) ==
    CASE file.kind = "absent" -> [res |-> "Ok", tables |-> t]
      [] file.kind = "malformed" -> [res |-> "Err", tables |-> t]
      [] OTHER ->
           LET e == LoadEmployees(t, file.employees)
           IN  IF e.res = "Err" THEN e
               ELSE LoadProducts(e.tables, file.products)

(***************************************************************************)
(* The inputs the calls are enumerated over                                *)
(***************************************************************************)
Jan == <<"J", "a", "n">>

Jana == <<"J", "a", "n", "a">>

Novak == <<"N", "o", "v", "a", "k">>

Milk == <<"M", "i", "l", "k">>

\* Strings for the columns matched with LIKE: empty, substrings of one
\* another, a different case, and the two wildcard characters
NameValues == {<<>>, Jan, Jana, <<"_">>, <<"%">>}

TextValues == {<<>>, Jan, <<"j">>}

DateValues == {[y |-> 2024, m |-> 1, d |-> 15], [y |-> 2025, m |-> 12, d |-> 3]}

\* Ids a caller may name: every id the store can assign and one it cannot
IdValues == 1..(MaxId + 1)

EmployeeValues ==
    [name |-> NameValues, surname |-> TextValues,
     position |-> {"Cashier", "Manager"}, department |-> {"Ops", "Sales"},
     shift |-> {"day", "night"}, salary |-> {1000, 1500},
     phone_number |-> {"0900", "0911"}, email |-> {"a@x.sk", "b@x.sk"},
     status |-> {TRUE, FALSE}, note |-> TextValues, hire_date |-> DateValues]

ProductValues ==
    [name |-> NameValues, category |-> {"dairy", "bakery"},
     quantity |-> {0, 5}, status |-> {TRUE, FALSE}, bar_code |-> {111, 222},
     cost_price |-> {1, 2}, sell_price |-> {2, 3},
     description |-> TextValues, brand |-> {"Rajo", "Tami"},
     supplier |-> {"Metro", "Lidl"}, employee_id |-> IdValues,
     date_added |-> DateValues, date_remove |-> DateValues]

\* An entity that passes the NOT NULL constraints of its table
EmployeeDefault ==
    [Employee_new_empty EXCEPT !.name = Some(Jana), !.surname = Some(Novak),
                               !.position = Some("Cashier")]

ProductDefault ==
    [Product_new_empty EXCEPT !.name = Some(Milk), !.category = Some("dairy"),
                              !.quantity = Some(5), !.bar_code = Some(111),
                              !.cost_price = Some(1), !.sell_price = Some(2)]

\* The runs differ in the columns their inputs vary in: every column of
\* either table alone, and some pairs
FocusSets ==
    {[table |-> "employees", cols |-> {c}] : c \in Range(EmployeeColumns)}
    \cup {[table |-> "products", cols |-> {c}] : c \in Range(ProductColumns)}
    \cup {[table |-> "employees", cols |-> {"department", "status"}],
          [table |-> "products", cols |-> {"category", "brand"}]}

Options(S) == {None} \cup {Some(v) : v \in S}

RECURSIVE Variants(_, _, _)
\* `base` with the columns of `cols` set to every combination of None and
\* the column's values
Variants(base, cols, values) ==
    IF cols = {} THEN {base}
    ELSE LET c == CHOOSE x \in cols : TRUE
         IN  {[e EXCEPT ![c] = o] :
                 e \in Variants(base, cols \ {c}, values),
                 o \in Options(values[c])}

WithId(e, id) == [e EXCEPT !.id = id]

\* Whether the inputs of the run vary in this column of this table
InFocus(table, c) == focus.table = table /\ c \in focus.cols

\* Bodies of POST /employees, with or without an id of the client's.  A run
\* on products.employee_id has the default employee to refer to.
NewEmployees ==
    IF focus.table = "employees"
    THEN {WithId(e, id) :
             e \in Variants(EmployeeDefault, focus.cols, EmployeeValues),
             id \in {None, Some(1)}}
    ELSE IF InFocus("products", "employee_id") THEN {EmployeeDefault} ELSE {}

\* Bodies of POST /products
NewProducts ==
    IF focus.table = "products"
    THEN {WithId(e, id) :
             e \in Variants(ProductDefault, focus.cols, ProductValues),
             id \in {None, Some(1)}}
    ELSE {}

\* Ids of DELETE /employees/{id}
EmployeeIds ==
    IF focus.table = "employees" \/ InFocus("products", "employee_id")
    THEN IdValues ELSE {}

ProductIds == IF focus.table = "products" THEN IdValues ELSE {}

\* Update payloads without their id
PartialEmployees ==
    IF focus.table = "employees"
    THEN Variants(Employee_new_empty, focus.cols, EmployeeValues) ELSE {}

PartialProducts ==
    IF focus.table = "products"
    THEN Variants(Product_new_empty, focus.cols, ProductValues) ELSE {}

\* Filters: the columns of the run without an id and with the id 1, and
\* an id alone
EmployeeFilters ==
    PartialEmployees
    \cup {WithId(e, Some(1)) : e \in PartialEmployees}
    \cup {WithId(Employee_new_empty, Some(id)) : id \in EmployeeIds}

ProductFilters ==
    PartialProducts
    \cup {WithId(e, Some(1)) : e \in PartialProducts}
    \cup {WithId(Product_new_empty, Some(id)) : id \in ProductIds}

\* The id a PUT body carries beside the id of the path: none, or another
BodyId(id) == IF id = 1 THEN None ELSE Some(1)

(***************************************************************************)
(* The calls                                                               *)
(***************************************************************************)
\* A store as StoreDB::new creates it
NoTables ==
    [employees |-> <<>>, products |-> <<>>, employees_seq |-> 0,
     products_seq |-> 0]

Tables ==
    [employees |-> employees, products |-> products,
     employees_seq |-> employees_seq, products_seq |-> products_seq]

Call(op, arg, r) ==
    [op |-> op, arg |-> arg, res |-> r.res, rows |-> <<>>,
     status |-> 0, executed |-> r.executed, fresh |-> NoTables]

\* No call is under way: the next one may start
Idle ==
    [op |-> "idle", arg |-> None, res |-> "Ok", rows |-> <<>>, status |-> 0,
     executed |-> FALSE, fresh |-> NoTables]

\* No process is modelled: the calls are made on the store directly
NoProcess == [phase |-> "none"]

Init ==
    /\ employees = <<>>
    /\ products = <<>>
    /\ employees_seq = 0
    /\ products_seq = 0
    /\ pre = NoTables
    /\ last = Idle
    /\ step = 0
    /\ proc = NoProcess
    /\ calls = <<>>
    /\ focus \in FocusSets

\* A call of StoreDB::add_employee_to_store_db
CallAddEmployee(e) ==
    LET r == add_employee_to_store_db(employees, employees_seq, e)
    IN  /\ last.op = "idle"
        /\ employees' = r.tbl
        /\ employees_seq' = r.seq
        /\ pre' = Tables
        /\ last' = Call("add_employee_to_store_db", e, r)
        /\ UNCHANGED <<products, products_seq, focus>>

\* A call of StoreDB::add_product_to_store_db
CallAddProduct(e) ==
    LET r == add_product_to_store_db(products, products_seq, employees, e)
    IN  /\ last.op = "idle"
        /\ products' = r.tbl
        /\ products_seq' = r.seq
        /\ pre' = Tables
        /\ last' = Call("add_product_to_store_db", e, r)
        /\ UNCHANGED <<employees, employees_seq, focus>>

\* A call of StoreDB::delete_employee
CallDeleteEmployee(id) ==
    LET r == delete_employee(employees, products, id)
    IN  /\ last.op = "idle"
        /\ employees' = r.tbl
        /\ pre' = Tables
        /\ last' = Call("delete_employee", Some(id), r)
        /\ UNCHANGED <<products, employees_seq, products_seq, focus>>

\* A call of StoreDB::delete_product
CallDeleteProduct(id) ==
    LET r == delete_product(products, id)
    IN  /\ last.op = "idle"
        /\ products' = r.tbl
        /\ pre' = Tables
        /\ last' = Call("delete_product", Some(id), r)
        /\ UNCHANGED <<employees, employees_seq, products_seq, focus>>

\* A call of StoreDB::update_employee
CallUpdateEmployee(e) ==
    LET r == update_employee(employees, e)
    IN  /\ last.op = "idle"
        /\ employees' = r.tbl
        /\ pre' = Tables
        /\ last' = Call("update_employee", e, r)
        /\ UNCHANGED <<products, employees_seq, products_seq, focus>>

\* A call of StoreDB::update_product
CallUpdateProduct(e) ==
    LET r == update_product(products, employees, e)
    IN  /\ last.op = "idle"
        /\ products' = r.tbl
        /\ pre' = Tables
        /\ last' = Call("update_product", e, r)
        /\ UNCHANGED <<employees, employees_seq, products_seq, focus>>

\* A call of StoreDB::get_employees
CallGetEmployees(e) ==
    /\ last.op = "idle"
    /\ pre' = Tables
    /\ last' = [op |-> "get_employees", arg |-> e, res |-> "Ok",
                rows |-> get_employees(employees, e), status |-> 0,
                executed |-> TRUE, fresh |-> NoTables]
    /\ UNCHANGED <<employees, products, employees_seq, products_seq, focus>>

\* A call of StoreDB::get_products
CallGetProducts(e) ==
    /\ last.op = "idle"
    /\ pre' = Tables
    /\ last' = [op |-> "get_products", arg |-> e, res |-> "Ok",
                rows |-> get_products(products, e), status |-> 0,
                executed |-> TRUE, fresh |-> NoTables]
    /\ UNCHANGED <<employees, products, employees_seq, products_seq, focus>>

AddEmployee ==
    /\ employees_seq < MaxId
    /\ \E e \in NewEmployees : CallAddEmployee(e)
    /\ UNCHANGED <<step, proc, calls>>

AddProduct ==
    /\ products_seq < MaxId
    /\ \E e \in NewProducts : CallAddProduct(e)
    /\ UNCHANGED <<step, proc, calls>>

DeleteEmployee ==
    /\ \E id \in EmployeeIds : CallDeleteEmployee(id)
    /\ UNCHANGED <<step, proc, calls>>

DeleteProduct ==
    /\ \E id \in ProductIds : CallDeleteProduct(id)
    /\ UNCHANGED <<step, proc, calls>>

UpdateEmployee ==
    /\ \E e \in PartialEmployees, id \in Options(IdValues) :
           CallUpdateEmployee(WithId(e, id))
    /\ UNCHANGED <<step, proc, calls>>

UpdateProduct ==
    /\ \E e \in PartialProducts, id \in Options(IdValues) :
           CallUpdateProduct(WithId(e, id))
    /\ UNCHANGED <<step, proc, calls>>

GetEmployees ==
    /\ \E e \in EmployeeFilters : CallGetEmployees(e)
    /\ UNCHANGED <<step, proc, calls>>

GetProducts ==
    /\ \E e \in ProductFilters : CallGetProducts(e)
    /\ UNCHANGED <<step, proc, calls>>

\* PUT /employees/{id}: the body may carry an id of its own
PutEmployee ==
    /\ last.op = "idle"
    /\ \E e \in PartialEmployees, id \in IdValues :
        LET r == api_update_employee(employees, id, WithId(e, BodyId(id)))
        IN  /\ employees' = r.tbl
            /\ pre' = Tables
            /\ last' = [op |-> "PUT /employees/{id}",
                        arg |-> WithId(e, Some(id)), res |-> r.res,
                        rows |-> <<>>, status |-> r.status,
                        executed |-> r.executed, fresh |-> NoTables]
            /\ UNCHANGED <<products, employees_seq, products_seq, focus,
                           step, proc, calls>>

\* PUT /products/{id}
PutProduct ==
    /\ last.op = "idle"
    /\ \E e \in PartialProducts, id \in IdValues :
        LET r == api_update_product(products, employees, id,
                                    WithId(e, BodyId(id)))
        IN  /\ products' = r.tbl
            /\ pre' = Tables
            /\ last' = [op |-> "PUT /products/{id}",
                        arg |-> WithId(e, Some(id)), res |-> r.res,
                        rows |-> <<>>, status |-> r.status,
                        executed |-> r.executed, fresh |-> NoTables]
            /\ UNCHANGED <<employees, employees_seq, products_seq, focus,
                           step, proc, calls>>

\* The answer of a handler, as the call under way
Answer(op, arg, r) ==
    [op |-> op, arg |-> arg, res |-> r.res, rows |-> <<>>,
     status |-> r.status, executed |-> r.executed, fresh |-> NoTables]

\* POST /employees
PostEmployee ==
    /\ last.op = "idle"
    /\ employees_seq < MaxId
    /\ \E e \in NewEmployees :
        LET r == api_add_employee(employees, employees_seq, e)
        IN  /\ employees' = r.tbl
            /\ employees_seq' = r.seq
            /\ pre' = Tables
            /\ last' = Answer("POST /employees", e, r)
    /\ UNCHANGED <<products, products_seq, focus, step, proc, calls>>

\* POST /products
PostProduct ==
    /\ last.op = "idle"
    /\ products_seq < MaxId
    /\ \E e \in NewProducts :
        LET r == api_add_product(products, products_seq, employees, e)
        IN  /\ products' = r.tbl
            /\ products_seq' = r.seq
            /\ pre' = Tables
            /\ last' = Answer("POST /products", e, r)
    /\ UNCHANGED <<employees, employees_seq, focus, step, proc, calls>>

\* DELETE /employees/{id}
HttpDeleteEmployee ==
    /\ last.op = "idle"
    /\ \E id \in EmployeeIds :
        LET r == api_delete_employee(employees, products, id)
        IN  /\ employees' = r.tbl
            /\ pre' = Tables
            /\ last' = Answer("DELETE /employees/{id}", Some(id), r)
    /\ UNCHANGED <<products, employees_seq, products_seq, focus, step, proc,
                   calls>>

\* DELETE /products/{id}
HttpDeleteProduct ==
    /\ last.op = "idle"
    /\ \E id \in ProductIds :
        LET r == api_delete_product(products, id)
        IN  /\ products' = r.tbl
            /\ pre' = Tables
            /\ last' = Answer("DELETE /products/{id}", Some(id), r)
    /\ UNCHANGED <<employees, employees_seq, products_seq, focus, step, proc,
                   calls>>

\* The snapshot round trip: save_to_json of the store, then load_from_json
\* of the file written into a store that StoreDB::new has just created
RoundTrip ==
    /\ last.op = "idle"
    /\ LET s == save_to_json(employees, products, Absent, "none")
           r == load_from_json(NoTables, s.file)
       IN  /\ pre' = Tables
           /\ last' = [op |-> "round_trip", arg |-> None, res |-> r.res,
                       rows |-> <<>>, status |-> 0, executed |-> TRUE,
                       fresh |-> r.tables]
    /\ UNCHANGED <<employees, products, employees_seq, products_seq, focus,
                   step, proc, calls>>

\* The call returns to its caller
Return ==
    /\ last.op # "idle"
    /\ last' = Idle
    /\ pre' = NoTables
    /\ UNCHANGED <<employees, products, employees_seq, products_seq, focus,
                   step, proc, calls>>

Next ==
    \/ AddEmployee
    \/ AddProduct
    \/ DeleteEmployee
    \/ DeleteProduct
    \/ UpdateEmployee
    \/ UpdateProduct
    \/ GetEmployees
    \/ GetProducts
    \/ PutEmployee
    \/ PutProduct
    \/ PostEmployee
    \/ PostProduct
    \/ HttpDeleteEmployee
    \/ HttpDeleteProduct
    \/ RoundTrip
    \/ Return

Spec == Init /\ [][Next]_vars

(***************************************************************************)
(* The scenario of the specification's section 8, call by call on an empty *)
(* store.  The scenario names two fields of each employee; the surname it  *)
(* leaves open is drawn here: none, or one of some strings.                *)
(***************************************************************************)
ScenarioSurnames == Options({Novak, Jan, <<>>})

ScenarioInit ==
    /\ employees = <<>>
    /\ products = <<>>
    /\ employees_seq = 0
    /\ products_seq = 0
    /\ pre = NoTables
    /\ last = Idle
    /\ step = 0
    /\ proc = NoProcess
    /\ calls = <<>>
    /\ focus \in {[table |-> "scenario", cols |-> {}, surnames |-> <<a, b>>] :
                     a \in ScenarioSurnames, b \in ScenarioSurnames}

\* Employee{name: "Jana", position: "Cashier"}
ScenarioJana ==
    [Employee_new_empty EXCEPT !.name = Some(Jana),
                               !.position = Some("Cashier"),
                               !.surname = focus.surnames[1]]

\* Employee{name: "Jan", position: "Manager"}
ScenarioJan ==
    [Employee_new_empty EXCEPT !.name = Some(Jan),
                               !.position = Some("Manager"),
                               !.surname = focus.surnames[2]]

NameFilter(n) == [Employee_new_empty EXCEPT !.name = Some(n)]

IdFilter(id) == [Employee_new_empty EXCEPT !.id = Some(id)]

Advance(k) == step = k /\ step' = k + 1 /\ UNCHANGED <<proc, calls>>

CreateJana == Advance(0) /\ CallAddEmployee(ScenarioJana)

CreateJan == Advance(1) /\ CallAddEmployee(ScenarioJan)

QueryJan == Advance(2) /\ CallGetEmployees(NameFilter(Jan))

QueryJana == Advance(3) /\ CallGetEmployees(NameFilter(Jana))

UpdateDepartment ==
    /\ Advance(4)
    /\ CallUpdateEmployee([Employee_new_empty EXCEPT
                              !.id = Some(2), !.department = Some("Ops")])

QuerySecond == Advance(5) /\ CallGetEmployees(IdFilter(2))

DeleteFirst == Advance(6) /\ CallDeleteEmployee(1)

QueryAll == Advance(7) /\ CallGetEmployees(Employee_new_empty)

ScenarioNext ==
    \/ CreateJana
    \/ CreateJan
    \/ QueryJan
    \/ QueryJana
    \/ UpdateDepartment
    \/ QuerySecond
    \/ DeleteFirst
    \/ QueryAll
    \/ Return

Scenario == ScenarioInit /\ [][ScenarioNext]_vars

(***************************************************************************)
(* The process (main.rs, server.rs): a run of main from its start to its   *)
(* exit, the files store.db and store_data.json it finds and leaves, and   *)
(* the requests its server handles meanwhile.  The tables are the content  *)
(* of store.db: they outlive the process and go when the file is removed.  *)
(***************************************************************************)
\* One call of the persistence layer on the tables t
Apply(t, req) ==
    CASE req.op = "add_employee_to_store_db" ->
           LET r == add_employee_to_store_db(t.employees, t.employees_seq,
                                             req.arg)
           IN  [res |-> r.res,
                tables |-> [t EXCEPT !.employees = r.tbl,
                                     !.employees_seq = r.seq]]
      [] req.op = "add_product_to_store_db" ->
           LET r == add_product_to_store_db(t.products, t.products_seq,
                                            t.employees, req.arg)
           IN  [res |-> r.res,
                tables |-> [t EXCEPT !.products = r.tbl,
                                     !.products_seq = r.seq]]
      [] req.op = "delete_employee" ->
           LET r == delete_employee(t.employees, t.products, req.arg)
           IN  [res |-> r.res, tables |-> [t EXCEPT !.employees = r.tbl]]
      [] req.op = "delete_product" ->
           LET r == delete_product(t.products, req.arg)
           IN  [res |-> r.res, tables |-> [t EXCEPT !.products = r.tbl]]
      [] req.op = "update_employee" ->
           LET r == update_employee(t.employees, req.arg)
           IN  [res |-> r.res, tables |-> [t EXCEPT !.employees = r.tbl]]
      [] req.op = "update_product" ->
           LET r == update_product(t.products, t.employees, req.arg)
           IN  [res |-> r.res, tables |-> [t EXCEPT !.products = r.tbl]]

\* Whether the call would take a counter past the bound
WithinBound(t, req) ==
    /\ req.op = "add_employee_to_store_db" => t.employees_seq < MaxId
    /\ req.op = "add_product_to_store_db" => t.products_seq < MaxId

\* The writes the server is asked for while the process runs
LifecycleRequests ==
    {[op |-> "add_employee_to_store_db", arg |-> EmployeeDefault],
     [op |-> "add_product_to_store_db",
      arg |-> [ProductDefault EXCEPT !.employee_id = Some(1)]],
     [op |-> "delete_employee", arg |-> 1],
     [op |-> "delete_product", arg |-> 1]}

\* A snapshot that imports whole, and one whose second employee has no
\* surname: its insert fails after the first has been made
GoodFile ==
    StoreData(<<EmployeeDefault>>,
              <<[ProductDefault EXCEPT !.employee_id = Some(1)]>>)

BadFile ==
    StoreData(<<EmployeeDefault,
                [Employee_new_empty EXCEPT !.name = Some(Jan)]>>, <<>>)

\* What can go wrong with File::create and the write that follows it
FileFaults == {"none", "create", "write"}

\* A process that is not running, with the files it would find
Stopped(db_file, json) ==
    [phase |-> "stopped",       \* where main is
     server |-> "off",          \* the spawned server task
     db_file |-> db_file,       \* whether store.db exists
     json |-> json,             \* store_data.json
     db_exists |-> FALSE,       \* main's local db_exists
     existed |-> FALSE,         \* whether store.db existed before the start
     import |-> "none",         \* result of load_from_json in this run
     import_kind |-> "none",    \* the file the import found
     imported |-> 0,            \* rows the import inserted
     startup_export |-> "none", \* result of save_to_json after the import
     shutdown_export |-> "none",\* result of save_to_json at Ctrl+C
     exit |-> "none",           \* how the run ended
     late |-> FALSE]            \* a request was handled after the shutdown
                                \* snapshot

LifecycleInit ==
    /\ employees = <<>>
    /\ products = <<>>
    /\ employees_seq = 0
    /\ products_seq = 0
    /\ pre = NoTables
    /\ last = Idle
    /\ step = 0
    /\ calls = <<>>
    /\ focus = [table |-> "lifecycle", cols |-> {}]
    /\ proc \in {Stopped(FALSE, j) : j \in {Absent, Malformed, GoodFile, BadFile}}

SetTables(t) ==
    /\ employees' = t.employees
    /\ products' = t.products
    /\ employees_seq' = t.employees_seq
    /\ products_seq' = t.products_seq

SameTables == UNCHANGED <<employees, products, employees_seq, products_seq>>

Rows(t) == Cardinality(DOMAIN t.employees) + Cardinality(DOMAIN t.products)

\* As ImportWanted, whatever db_exists is
ImportWanted_Always(db_exists) == TRUE

\* if !db_exists { load_from_json ... }
ImportWanted(db_exists) == ~db_exists

\* main up to StoreDB::new: db_exists is read, then the store is opened,
\* which creates store.db and the tables where missing.  When opening fails
\* main returns the error, with store.db created or not.
Start ==
    /\ proc.phase \in {"stopped", "exited"}
    /\ \E fail \in {"none", "open", "connect"} :
         proc' = IF fail = "none"
                 THEN [Stopped(TRUE, proc.json) EXCEPT
                          !.phase = "started",
                          !.db_exists = proc.db_file,
                          !.existed = proc.db_file]
                 ELSE [Stopped(proc.db_file \/ fail = "connect", proc.json)
                          EXCEPT !.phase = "exited", !.exit = "Err",
                                 !.db_exists = proc.db_file,
                                 !.existed = proc.db_file]
    /\ SameTables
    /\ UNCHANGED <<pre, last, focus, step, calls>>

\* match DBFiller::load_from_json(..) { Ok => save_to_json, Err => report }
Import ==
    /\ proc.phase = "started"
    /\ ImportWanted(proc.db_exists)
    /\ LET r == load_from_json(Tables, proc.json)
       IN  /\ SetTables(r.tables)
           /\ proc' = [proc EXCEPT
                          !.import = r.res,
                          !.import_kind = proc.json.kind,
                          !.imported = Rows(r.tables) - Rows(Tables),
                          !.phase = IF r.res = "Ok" THEN "loaded"
                                    ELSE "spawn"]
    /\ UNCHANGED <<pre, last, focus, step, calls>>

\* else { println!("Databáza už existuje.") }
SkipImport ==
    /\ proc.phase = "started"
    /\ ~ImportWanted(proc.db_exists)
    /\ proc' = [proc EXCEPT !.phase = "spawn"]
    /\ SameTables
    /\ UNCHANGED <<pre, last, focus, step, calls>>

\* The save_to_json that follows a successful import; its error is reported
StartupExport ==
    /\ proc.phase = "loaded"
    /\ \E fault \in FileFaults :
         LET s == save_to_json(employees, products, proc.json, fault)
         IN  proc' = [proc EXCEPT !.json = s.file, !.startup_export = s.res,
                                  !.phase = "spawn"]
    /\ SameTables
    /\ UNCHANGED <<pre, last, focus, step, calls>>

\* tokio::spawn(server.run()): the server binds its port and serves, or
\* fails to bind and reports it; main goes on to wait for Ctrl+C
Spawn ==
    /\ proc.phase = "spawn"
    /\ \E bound \in {"on", "failed"} :
         proc' = [proc EXCEPT !.server = bound, !.phase = "waiting"]
    /\ SameTables
    /\ UNCHANGED <<pre, last, focus, step, calls>>

\* signal::ctrl_c().await returns
CtrlC ==
    /\ proc.phase = "waiting"
    /\ proc' = [proc EXCEPT !.phase = "shutdown"]
    /\ SameTables
    /\ UNCHANGED <<pre, last, focus, step, calls>>

\* The save_to_json of the shutdown; the server task is still running
ShutdownExport ==
    /\ proc.phase = "shutdown"
    /\ \E fault \in FileFaults :
         LET s == save_to_json(employees, products, proc.json, fault)
         IN  proc' = [proc EXCEPT !.json = s.file, !.shutdown_export = s.res,
                                  !.phase = "saved"]
    /\ SameTables
    /\ UNCHANGED <<pre, last, focus, step, calls>>

\* server_handle.abort(); Ok(())
Exit ==
    /\ proc.phase = "saved"
    /\ proc' = [proc EXCEPT !.server = "off", !.phase = "exited",
                            !.exit = "Ok"]
    /\ SameTables
    /\ UNCHANGED <<pre, last, focus, step, calls>>

\* The server task handles a request: from its spawn to its abort
HandleRequest ==
    /\ proc.server = "on"
    /\ \E req \in LifecycleRequests :
         /\ WithinBound(Tables, req)
         /\ SetTables(Apply(Tables, req).tables)
    /\ proc' = [proc EXCEPT !.late = @ \/ proc.phase = "saved"]
    /\ UNCHANGED <<pre, last, focus, step, calls>>

\* The process is ended from outside without its shutdown path
Kill ==
    /\ proc.phase \notin {"stopped", "exited"}
    /\ proc' = [proc EXCEPT !.server = "off", !.phase = "exited",
                            !.exit = "killed"]
    /\ SameTables
    /\ UNCHANGED <<pre, last, focus, step, calls>>

\* store.db is removed while no process runs
RemoveStore ==
    /\ proc.phase \in {"stopped", "exited"}
    /\ proc.db_file
    /\ proc' = [proc EXCEPT !.db_file = FALSE]
    /\ SetTables(NoTables)
    /\ UNCHANGED <<pre, last, focus, step, calls>>

LifecycleNext ==
    \/ Start
    \/ Import
    \/ SkipImport
    \/ StartupExport
    \/ Spawn
    \/ CtrlC
    \/ ShutdownExport
    \/ Exit
    \/ HandleRequest
    \/ Kill
    \/ RemoveStore

Lifecycle == LifecycleInit /\ [][LifecycleNext]_vars

(***************************************************************************)
(* Concurrent requests: the server handles each request in a task of its   *)
(* own on a pool of connections (db.rs, max_connections(5)).  A handler    *)
(* builds its one statement from the entity it was given, then has it      *)
(* executed; SQLite executes a statement in a transaction of its own, so   *)
(* the execution is one step.  Requests are made in batches: a batch ends  *)
(* when every request made has been answered.                              *)
(***************************************************************************)
\* Requests that may be in progress at once
MaxCalls == 2

Slots == 1..MaxCalls

UpdateOf(e) == [op |-> "update_employee", arg |-> WithId(e, Some(1))]

ConcurrentRequests ==
    {[op |-> "add_employee_to_store_db", arg |-> EmployeeDefault],
     [op |-> "add_product_to_store_db",
      arg |-> [ProductDefault EXCEPT !.employee_id = Some(1)]],
     [op |-> "delete_employee", arg |-> 1],
     UpdateOf([Employee_new_empty EXCEPT !.department = Some("Ops"),
                                         !.status = Some(TRUE)]),
     UpdateOf([Employee_new_empty EXCEPT !.department = Some("HR")]),
     UpdateOf([Employee_new_empty EXCEPT !.status = Some(FALSE),
                                         !.shift = Some("night")])}

Free == [pc |-> "free"]

\* The requests whose statement is built and not yet executed
Pending(op) ==
    {s \in Slots : calls.slots[s].pc = "built" /\ calls.slots[s].req.op = op}

ConcurrentInit ==
    /\ employees = <<>>
    /\ products = <<>>
    /\ employees_seq = 0
    /\ products_seq = 0
    /\ pre = NoTables
    /\ last = Idle
    /\ step = 0
    /\ proc = NoProcess
    /\ focus = [table |-> "concurrent", cols |-> {}]
    /\ calls = [slots |-> [s \in Slots |-> Free], base |-> NoTables,
                order |-> <<>>]

\* A handler is given its entity and builds its statement
Begin ==
    /\ \E s \in Slots, req \in ConcurrentRequests :
         /\ calls.slots[s].pc = "free"
         /\ req.op = "add_employee_to_store_db" =>
                employees_seq + Cardinality(Pending(req.op)) < MaxId
         /\ req.op = "add_product_to_store_db" =>
                products_seq + Cardinality(Pending(req.op)) < MaxId
         /\ calls' = [calls EXCEPT !.slots[s] = [pc |-> "built", req |-> req]]
    /\ SameTables
    /\ UNCHANGED <<pre, last, focus, step, proc>>

\* The statement of a handler is executed by the store
Execute ==
    /\ \E s \in Slots :
         /\ calls.slots[s].pc = "built"
         /\ LET r == Apply(Tables, calls.slots[s].req)
            IN  /\ SetTables(r.tables)
                /\ calls' = [calls EXCEPT
                                !.slots[s] = [pc |-> "done",
                                              req |-> calls.slots[s].req,
                                              res |-> r.res],
                                !.order = Append(@, s)]
    /\ UNCHANGED <<pre, last, focus, step, proc>>

\* Every request made has been answered: the next batch starts on the store
\* as it is now
NewBatch ==
    /\ calls.order # <<>>
    /\ \A s \in Slots : calls.slots[s].pc # "built"
    /\ calls' = [slots |-> [s \in Slots |-> Free], base |-> Tables,
                 order |-> <<>>]
    /\ SameTables
    /\ UNCHANGED <<pre, last, focus, step, proc>>

ConcurrentNext ==
    \/ Begin
    \/ Execute
    \/ NewBatch

Concurrent == ConcurrentInit /\ [][ConcurrentNext]_vars

(***************************************************************************)
(* What the claims speak of                                                *)
(***************************************************************************)
\* The entities a table holds, as a reader of the table sees them
StoredEmployees(tbl) == {EmployeeFromRow(i, tbl[i]) : i \in DOMAIN tbl}

StoredProducts(tbl) == {ProductFromRow(i, tbl[i]) : i \in DOMAIN tbl}

\* The fields of an entity that are set
SetFields(e) == {f \in DOMAIN e : e[f] # None}

\* The rows of a result are exactly the entities of S, each once
Returns(rows, S) == Range(rows) = S /\ Len(rows) = Cardinality(S)

IsUpdate == last.op \in {"update_employee", "PUT /employees/{id}",
                         "update_product", "PUT /products/{id}"}

OnEmployees == last.op \in {"add_employee_to_store_db", "delete_employee",
                            "update_employee", "PUT /employees/{id}",
                            "get_employees", "POST /employees",
                            "DELETE /employees/{id}"}

\* The table the call under way is on, before and after
PreTable == IF OnEmployees THEN pre.employees ELSE pre.products

PostTable == IF OnEmployees THEN employees ELSE products

Unchanged ==
    /\ employees = pre.employees
    /\ products = pre.products
    /\ employees_seq = pre.employees_seq
    /\ products_seq = pre.products_seq

(***************************************************************************)
(* C1                                                                      *)
(***************************************************************************)
\* The expected answer to a filter: every stored entity when no field is
\* set, the entities equal in the field when one exact-match field is set
ExactAnswer(rows, stored, filter, like) ==
    /\ SetFields(filter) = {} => Returns(rows, stored)
    /\ \A f \in DOMAIN filter \ like :
           SetFields(filter) = {f} =>
               Returns(rows, {e \in stored : e[f] = filter[f]})

\* C1: a query whose filter has every field unset returns every stored row;
\* with exactly one exact-match field set to v it returns exactly the stored
\* rows whose field equals v -- for employees and for products.
C1_ExactFilter ==
    /\ last.op = "get_employees" =>
           ExactAnswer(last.rows, StoredEmployees(employees), last.arg,
                       EmployeeLike)
    /\ last.op = "get_products" =>
           ExactAnswer(last.rows, StoredProducts(products), last.arg,
                       ProductLike)

\* A filter on one exact-match field that keeps one of two stored rows
C1_Witness ==
    /\ last.op = "get_products"
    /\ Cardinality(SetFields(last.arg)) = 1
    /\ SetFields(last.arg) \cap ProductLike = {}
    /\ last.arg.id = None
    /\ Len(last.rows) = 1
    /\ Cardinality(DOMAIN products) = 2

(***************************************************************************)
(* C2                                                                      *)
(***************************************************************************)
\* Whether s occurs in t as a substring, letters compared as LIKE compares
\* them (without regard to ASCII case)
Contains(t, s) ==
    \E i \in 0..(Len(t) - Len(s)) :
        \A k \in 1..Len(s) : Fold(t[i + k]) = Fold(s[k])

SubstringAnswer(rows, stored, filter, like) ==
    \A f \in like :
        SetFields(filter) = {f} =>
            IF filter[f][1] = <<>>
            THEN Returns(rows, stored)
            ELSE Returns(rows, {e \in stored :
                                   e[f] # None /\ Contains(e[f][1], filter[f][1])})

\* C2: on a substring-filter field the empty string filters nothing, and a
\* non-empty string s returns exactly the stored rows whose field contains s,
\* also when s holds the characters % or _.
C2_SubstringFilter ==
    /\ last.op = "get_employees" =>
           SubstringAnswer(last.rows, StoredEmployees(employees), last.arg,
                           EmployeeLike)
    /\ last.op = "get_products" =>
           SubstringAnswer(last.rows, StoredProducts(products), last.arg,
                           ProductLike)

(***************************************************************************)
(* C3                                                                      *)
(***************************************************************************)
IsPut == last.op \in {"PUT /employees/{id}", "PUT /products/{id}"}

\* The non-id fields an update payload sets, and the id it names
Payload == SetFields(last.arg) \ {"id"}

Target == last.arg.id[1]

\* The entity read back from a row of the table the call is on
ReadBack(id) ==
    IF OnEmployees THEN EmployeeFromRow(id, PostTable[id])
    ELSE ProductFromRow(id, PostTable[id])

\* The AUTOINCREMENT counter of the table the call is on
PreSeq == IF OnEmployees THEN pre.employees_seq ELSE pre.products_seq

PostSeq == IF OnEmployees THEN employees_seq ELSE products_seq

\* The table the call is not on, and its counter, are as they were
OtherTableUnchanged ==
    IF OnEmployees
    THEN products = pre.products /\ products_seq = pre.products_seq
    ELSE employees = pre.employees /\ employees_seq = pre.employees_seq

\* The target row holds the payload in the columns of S and its old values
\* elsewhere; every other row is as it was
UpdatedExactly(S) ==
    /\ DOMAIN PostTable = DOMAIN PreTable
    /\ \A i \in DOMAIN PreTable \ {Target} : PostTable[i] = PreTable[i]
    /\ \A c \in S : ReadBack(Target)[c] = last.arg[c]
    /\ \A c \in DOMAIN PreTable[Target] \ S :
           PostTable[Target][c] = PreTable[Target][c]
    /\ OtherTableUnchanged
    /\ PostSeq = PreSeq

\* Whether the payload of a product names an employee the store does not hold
DanglingEmployee ==
    /\ ~OnEmployees
    /\ last.arg.employee_id # None
    /\ last.arg.employee_id[1] \notin DOMAIN pre.employees

C4_UpdateWithoutId ==
    (last.op \in {"update_employee", "update_product"} /\ last.arg.id = None)
        => last.res = "false" /\ Unchanged

\* An update without id that sets a field, on a table that holds a row
C4_Witness ==
    /\ last.op = "update_product"
    /\ last.arg.id = None
    /\ SetFields(last.arg) # {}
    /\ DOMAIN products # {}
    /\ last.res = "false"

C6_EmptyUpdate ==
    (IsUpdate /\ last.arg.id # None /\ Payload = {})
        => last.res = "false" /\ ~last.executed /\ Unchanged

\* An update with nothing but the id of an existing row
C6_Witness ==
    /\ last.op = "update_employee"
    /\ last.arg.id # None
    /\ Payload = {}
    /\ Target \in DOMAIN pre.employees
    /\ last.res = "false"

(***************************************************************************)
(* C7                                                                      *)
(***************************************************************************)
IsDelete == last.op \in {"delete_employee", "delete_product"}

\* A query by the id alone finds nothing
GoneById(id) ==
    IF OnEmployees
    THEN get_employees(employees, WithId(Employee_new_empty, Some(id))) = <<>>
    ELSE get_products(products, WithId(Product_new_empty, Some(id))) = <<>>

\* The row with the id is removed, all else is as it was
DeletedExactly(id) ==
    /\ last.res = "true"
    /\ PostTable = [i \in DOMAIN PreTable \ {id} |-> PreTable[i]]
    /\ OtherTableUnchanged
    /\ PostSeq = PreSeq
    /\ GoneById(id)

\* Whether a product row refers to the employee
Referenced(id) ==
    /\ OnEmployees
    /\ \E p \in DOMAIN pre.products : pre.products[p].employee_id = <<id>>

IsAdd == last.op \in {"add_employee_to_store_db", "add_product_to_store_db"}

IsGet == last.op \in {"get_employees", "get_products"}

\* The rows of the table before the call are there after it, as they were
RowsKept == \A i \in DOMAIN PreTable :
                i \in DOMAIN PostTable /\ PostTable[i] = PreTable[i]

\* C8: the id of a row is assigned by the store when the row is created,
\* whatever id the client supplied: it is an id no row of the table ever had.
\* No create, update or delete gives an existing row another id, and the ids
\* a query reports are those of the rows, each once.
C8_IdAssignedByStore ==
    /\ \A i \in DOMAIN employees : i <= employees_seq
    /\ \A i \in DOMAIN products : i <= products_seq
    /\ (IsAdd /\ last.res = "Ok") =>
           /\ RowsKept
           /\ \E n \in DOMAIN PostTable :
                  /\ DOMAIN PostTable = DOMAIN PreTable \cup {n}
                  /\ n > PreSeq
                  /\ n = PostSeq
    /\ IsUpdate => DOMAIN PostTable = DOMAIN PreTable /\ PostSeq = PreSeq
    /\ IsDelete =>
           /\ DOMAIN PostTable \subseteq DOMAIN PreTable
           /\ \A i \in DOMAIN PostTable : PostTable[i] = PreTable[i]
           /\ PostSeq = PreSeq
    /\ IsGet =>
           /\ \A j, k \in DOMAIN last.rows :
                  last.rows[j].id = last.rows[k].id => j = k
           /\ \A k \in DOMAIN last.rows :
                  /\ last.rows[k].id # None
                  /\ last.rows[k].id[1] \in DOMAIN PostTable
                  /\ last.rows[k] = ReadBack(last.rows[k].id[1])

\* A create whose client names the id of an existing row gets a new id
C8_Witness ==
    /\ last.op = "add_employee_to_store_db"
    /\ last.res = "Ok"
    /\ last.arg.id = Some(1)
    /\ 1 \in DOMAIN pre.employees
    /\ DOMAIN employees = {1, 2}

(***************************************************************************)
(* C9                                                                      *)
(***************************************************************************)
\* The fields a create needs, as CREATE TABLE declares them NOT NULL
RequiredFields ==
    IF OnEmployees THEN {"name", "surname", "position"}
    ELSE {"name", "category", "quantity", "bar_code", "cost_price",
          "sell_price"}

\* C9: a create fails when a NOT NULL field is absent; a failed create
\* leaves the store as it was; a successful create adds exactly one row,
\* which carries every field of the entity but the id.
C9_CreateAllOrNothing ==
    IsAdd =>
        /\ last.res \in {"Ok", "Err"}
        /\ (\E c \in RequiredFields : last.arg[c] = None) => last.res = "Err"
        /\ last.res = "Err" => Unchanged
        /\ last.res = "Ok" =>
               /\ RowsKept
               /\ OtherTableUnchanged
               /\ \E n \in DOMAIN PostTable \ DOMAIN PreTable :
                      /\ DOMAIN PostTable = DOMAIN PreTable \cup {n}
                      /\ \A c \in DOMAIN last.arg \ {"id"} :
                             ReadBack(n)[c] = last.arg[c]

\* A create without surname fails on a table that holds a row
C9_Witness ==
    /\ last.op = "add_employee_to_store_db"
    /\ last.arg.surname = None
    /\ last.arg.name # None
    /\ last.arg.position # None
    /\ last.res = "Err"
    /\ DOMAIN employees # {}

(***************************************************************************)
(* C10                                                                     *)
(***************************************************************************)
\* The ids of the rows of a result, in the order of the result
RowIds(rows) == [k \in DOMAIN rows |-> rows[k].id[1]]

\* The k-th call of the scenario has been made and has not yet returned
After(k) == step = k /\ last.op # "idle"

\* What the scenario says of each of its calls
ScenarioAsStated ==
    /\ After(1) => last.res = "Ok" /\ DOMAIN employees = {1}
    /\ After(2) => last.res = "Ok" /\ DOMAIN employees = {1, 2}
    /\ After(3) => RowIds(last.rows) = <<1, 2>>
    /\ After(4) => RowIds(last.rows) = <<1>>
    /\ After(5) => /\ last.res = "true"
                   /\ 2 \in DOMAIN employees
                   /\ employees[2].position = <<"Manager">>
                   /\ employees[2].department = <<"Ops">>
    /\ After(6) => /\ Len(last.rows) = 1
                   /\ last.rows[1].id = Some(2)
                   /\ last.rows[1].department = Some("Ops")
                   /\ last.rows[1].position = Some("Manager")
    /\ After(7) => last.res = "true" /\ DOMAIN employees = {2}
    /\ After(8) => RowIds(last.rows) = <<2>>

WithoutIds(S) == {[e EXCEPT !.id = None] : e \in S}

\* C11: save_to_json followed by load_from_json into a fresh empty store
\* completes without error and yields employees and products equal, as sets
\* of rows compared on every field but id, to those of the exported store.
C11_RoundTrip ==
    last.op = "round_trip" =>
        /\ last.res = "Ok"
        /\ WithoutIds(StoredEmployees(last.fresh.employees))
               = WithoutIds(StoredEmployees(employees))
        /\ WithoutIds(StoredProducts(last.fresh.products))
               = WithoutIds(StoredProducts(products))

\* C11 where no product names an employee: the round trip does succeed
C11_RoundTripUnreferenced ==
    (last.op = "round_trip"
       /\ \A p \in DOMAIN products : products[p].employee_id = NULL) =>
        /\ last.res = "Ok"
        /\ WithoutIds(StoredEmployees(last.fresh.employees))
               = WithoutIds(StoredEmployees(employees))
        /\ WithoutIds(StoredProducts(last.fresh.products))
               = WithoutIds(StoredProducts(products))

(***************************************************************************)
(* C12                                                                     *)
(***************************************************************************)
\* Whether main has passed the import and the export that may follow it
PastStartup ==
    \/ proc.phase \in {"spawn", "waiting", "shutdown", "saved"}
    \/ proc.phase = "exited" /\ proc.exit = "Ok"

\* C12: the import is attempted at a start only if no store file existed
\* before that start; an export runs after every import that succeeded, and
\* one on every graceful shutdown; a start that finds a store file performs
\* neither import nor startup export.
C12_ImportExportOrder ==
    /\ proc.import # "none" => ~proc.existed
    /\ PastStartup => (proc.startup_export # "none" <=> proc.import = "Ok")
    /\ proc.startup_export # "none" => proc.import = "Ok"
    /\ (proc.phase = "exited" /\ proc.exit = "Ok")
           => proc.shutdown_export # "none"
    /\ proc.existed => proc.import = "none" /\ proc.startup_export = "none"

\* A second run that found store.db and ended gracefully with its export
C12_Witness ==
    /\ proc.phase = "exited"
    /\ proc.exit = "Ok"
    /\ proc.existed
    /\ proc.shutdown_export = "Ok"
    /\ proc.import = "none"

(***************************************************************************)
(* C13                                                                     *)
(***************************************************************************)
\* C13: a missing snapshot file makes the import succeed with nothing
\* inserted; a failed import and a failed export are reported and main goes
\* on: it never returns an error once the store is open.
C13_SnapshotFailureTolerated ==
    /\ proc.import_kind = "absent" => proc.import = "Ok" /\ proc.imported = 0
    /\ proc.import = "Err"
           => proc.phase \in {"spawn", "waiting", "shutdown", "saved",
                              "exited"}
    /\ proc.exit = "Err"
           => /\ proc.import = "none"
              /\ proc.startup_export = "none"
              /\ proc.shutdown_export = "none"
    /\ (proc.shutdown_export = "Err" /\ proc.phase = "exited")
           => proc.exit \in {"Ok", "killed"}

\* The server is up after an import that failed part-way, and the run ends
\* normally although its shutdown export fails
C13_Witness ==
    /\ proc.import = "Err"
    /\ proc.imported = 1
    /\ proc.shutdown_export = "Err"
    /\ proc.phase = "exited"
    /\ proc.exit = "Ok"

(***************************************************************************)
(* C14                                                                     *)
(***************************************************************************)
\* The snapshot the store would be written as
SnapshotOf(emps, prods) ==
    StoreData(get_employees(emps, Employee_new_empty),
              get_products(prods, Product_new_empty))

\* C14: no request is handled after the shutdown snapshot has started, so
\* the snapshot a graceful shutdown has written holds every write made.
C14_ShutdownOrder ==
    /\ ~proc.late
    /\ (proc.phase = "exited" /\ proc.exit = "Ok"
          /\ proc.shutdown_export = "Ok")
           => proc.json = SnapshotOf(employees, products)

(***************************************************************************)
(* C15                                                                     *)
(***************************************************************************)
IsPost == last.op \in {"POST /employees", "POST /products"}

IsHttpDelete == last.op \in {"DELETE /employees/{id}", "DELETE /products/{id}"}

\* No row but the one the path names is touched by a PUT
OnlyPathRow ==
    /\ DOMAIN PostTable = DOMAIN PreTable
    /\ \A i \in DOMAIN PreTable \ {Target} : PostTable[i] = PreTable[i]
    /\ OtherTableUnchanged

\* C15 as stated: POST answers 201 on success; PUT answers 200 when the row
\* of the path exists and 404 when it does not, and acts on the id of the
\* path whatever id the body carries; DELETE answers 204 when a row was
\* removed and 404 when the id is absent; a store error answers 500.
C15_StatusMapping ==
    /\ IsPost => last.status = IF last.res = "Err" THEN 500 ELSE 201
    /\ IsPut =>
           /\ last.status = IF last.res = "Err" THEN 500
                            ELSE IF Target \in DOMAIN PreTable THEN 200
                            ELSE 404
           /\ OnlyPathRow
    /\ IsHttpDelete =>
           last.status = IF last.res = "Err" THEN 500
                         ELSE IF last.arg[1] \in DOMAIN PreTable THEN 204
                         ELSE 404

\* C15 amended: as stated, but PUT answers 200 only when the row of the path
\* exists and the body sets a field; with a body that sets none it answers
\* 404 although the row exists.
C15_StatusMappingAmended ==
    /\ IsPost =>
           /\ last.status = IF last.res = "Err" THEN 500 ELSE 201
           /\ last.res = "Ok" <=> PostTable # PreTable
    /\ IsPut =>
           /\ last.status = IF last.res = "Err" THEN 500
                            ELSE IF Target \in DOMAIN PreTable /\ Payload # {}
                            THEN 200
                            ELSE 404
           /\ OnlyPathRow
           /\ last.status # 200 => Unchanged
    /\ IsHttpDelete =>
           /\ last.status = IF last.res = "Err" THEN 500
                            ELSE IF last.arg[1] \in DOMAIN PreTable THEN 204
                            ELSE 404
           /\ last.status = 204 <=> last.arg[1] \notin DOMAIN PostTable
                                    /\ last.arg[1] \in DOMAIN PreTable
           /\ last.status # 204 => Unchanged

\* PUT /employees/2 with a body that carries the id 1 changes row 2 and
\* leaves row 1, and answers 200
C15_Witness ==
    /\ last.op = "PUT /employees/{id}"
    /\ Target = 2
    /\ BodyId(Target) = Some(1)
    /\ DOMAIN pre.employees = {1, 2}
    /\ last.status = 200
    /\ employees[2] # pre.employees[2]
    /\ employees[1] = pre.employees[1]

(***************************************************************************)
(* C16                                                                     *)
(***************************************************************************)
IsCreate == IsAdd \/ IsPost

\* The entities of the table the call is on
Stored == IF OnEmployees THEN StoredEmployees(PostTable)
          ELSE StoredProducts(PostTable)

\* The entity a row of the table read as before the call
ReadBefore(id) ==
    IF OnEmployees THEN EmployeeFromRow(id, PreTable[id])
    ELSE ProductFromRow(id, PreTable[id])

\* Whether two entities differ in nothing but id and status
SameButStatus(a, b) == \A f \in DOMAIN a \ {"id", "status"} : a[f] = b[f]

\* What a query answers on status: with status set, rows of that status
\* only, and all of them when nothing else is set; with status unset, rows
\* that differ in status alone are returned or left out together
StatusFilter ==
    IsGet =>
        /\ last.arg.status # None =>
               /\ \A k \in DOMAIN last.rows :
                      last.rows[k].status = last.arg.status
               /\ SetFields(last.arg) = {"status"} =>
                      Returns(last.rows,
                              {e \in Stored : e.status = last.arg.status})
        /\ last.arg.status = None =>
               \A a \in Stored, b \in Stored :
                   (SameButStatus(a, b) /\ last.arg.id = None) =>
                       (a \in Range(last.rows) <=> b \in Range(last.rows))

\* A created row reads back with the status it was created with
StatusCreated ==
    (IsCreate /\ last.res = "Ok") => ReadBack(PostSeq).status = last.arg.status

\* C16 as stated: a row created or updated with status true, false or unset
\* is returned with the same status; a filter with status = false returns
\* the rows whose status is false and not those whose status is unset; a
\* filter with status unset places no constraint on status.
C16_TriState ==
    /\ StatusCreated
    /\ (IsUpdate /\ last.res = "true") =>
           ReadBack(Target).status = last.arg.status
    /\ StatusFilter

\* C16 amended: an update whose status is unset leaves the status of the row
\* as it was; an update whose status is true or false stores that value.
C16_TriStateAmended ==
    /\ StatusCreated
    /\ (IsUpdate /\ last.res = "true") =>
           ReadBack(Target).status =
               IF last.arg.status = None THEN ReadBefore(Target).status
               ELSE last.arg.status
    /\ StatusFilter

\* A filter with status = false finds the one row whose status is false and
\* not the row whose status is unset
C16_Witness ==
    /\ last.op = "get_employees"
    /\ last.arg.status = Some(FALSE)
    /\ Len(last.rows) = 1
    /\ \E i \in DOMAIN employees : employees[i].status = NULL
    /\ \E i \in DOMAIN employees : employees[i].status = <<0>>

(***************************************************************************)
(* C17                                                                     *)
(***************************************************************************)
\* The columns of a table in the order of CREATE TABLE, id first
SchemaOrder(cols) == <<"id">> \o cols

\* The fields of a filter that contribute a condition, in schema order: the
\* fields set, but for a substring field set to the empty string
Contributing(e, cols, like) ==
    SelectSeq(SchemaOrder(cols),
              LAMBDA f : e[f] # None /\ ~(f \in like /\ e[f][1] = <<>>))

\* The parameter a field of a filter is bound as
FilterParam(e, f, like, ty) ==
    IF f \in like THEN <<"%">> \o e[f][1] \o <<"%">>
    ELSE EncodeVal(ty[f], e[f][1])

\* A filter query has a placeholder and a parameter for every contributing
\* field, in schema order
FilterBound(q, e, cols, like, ty) ==
    LET F == Contributing(e, cols, like)
    IN  /\ Len(q.conds) = Len(F)
        /\ Len(q.args) = Len(q.conds)
        /\ \A k \in DOMAIN F :
               /\ q.conds[k].col = F[k]
               /\ q.args[k] = FilterParam(e, F[k], like, ty)

\* An update has an assignment and a parameter for every field set, in
\* schema order, and then the id
UpdateBound(q, e, cols, ty) ==
    LET F == SelectSeq(cols, LAMBDA f : e[f] # None)
    IN  /\ Len(q.updates) = Len(F)
        /\ Len(q.args) = Len(q.updates) + 1
        /\ \A k \in DOMAIN F :
               /\ q.updates[k] = F[k]
               /\ q.args[k] = EncodeVal(ty[F[k]], e[F[k]][1])
        /\ q.args[Len(q.args)] = e.id[1]

\* C17: the query generated for a filter or an update has as many
\* placeholders as parameters, the k-th parameter that of the k-th
\* placeholder: conditions in schema order, id first; assignments in schema
\* order, the id bound last for WHERE id = ?.
C17_ParameterOrder ==
    /\ last.op = "get_employees" =>
           FilterBound(FilterQuery(last.arg, EmployeeFilterOrder,
                                   EmployeeLike, EmployeeType),
                       last.arg, EmployeeColumns, EmployeeLike, EmployeeType)
    /\ last.op = "get_products" =>
           FilterBound(FilterQuery(last.arg, ProductFilterOrder, ProductLike,
                                   ProductType),
                       last.arg, ProductColumns, ProductLike, ProductType)
    /\ (IsUpdate /\ last.executed) =>
           IF OnEmployees
           THEN UpdateBound(UpdateQuery(last.arg, EmployeeColumns,
                                        EmployeeType),
                            last.arg, EmployeeColumns, EmployeeType)
           ELSE UpdateBound(UpdateQuery(last.arg, ProductColumns,
                                        ProductType),
                            last.arg, ProductColumns, ProductType)

\* A filter on the id and two more fields: three conditions
C17_Witness ==
    /\ last.op = "get_employees"
    /\ Cardinality(SetFields(last.arg)) = 3
    /\ last.arg.id # None
    /\ Len(last.rows) = 1

(***************************************************************************)
(* C18                                                                     *)
(***************************************************************************)
\* The sequences that hold every element of S once
Arrangements(S) ==
    {p \in [1..Cardinality(S) -> S] : \A a \in S : \E k \in DOMAIN p : p[k] = a}

RECURSIVE Serially(_, _)
\* The store after the requests of the slots in p, one after the other, and
\* whether each got the result it was answered with
Serially(t, p) ==
    IF p = <<>> THEN [tables |-> t, same |-> TRUE]
    ELSE LET r == Apply(t, calls.slots[Head(p)].req)
             rest == Serially(r.tables, Tail(p))
         IN  [tables |-> rest.tables,
              same |-> rest.same /\ r.res = calls.slots[Head(p)].res]

\* The requests of the batch executed so far
Executed == Range(calls.order)

\* Whether the batch so far is updates of the employee i and nothing else
OnlyUpdatesOf(i) ==
    /\ i \in DOMAIN calls.base.employees
    /\ Executed # {}
    /\ \A s \in Executed :
           /\ calls.slots[s].req.op = "update_employee"
           /\ calls.slots[s].req.arg.id = Some(i)

\* The value of column c of the employee i after the updates of the batch:
\* that of the last update executed that sets c, or the value it had
LastWrite(i, c) ==
    LET setters == {k \in DOMAIN calls.order :
                       calls.slots[calls.order[k]].req.arg[c] # None}
    IN  IF setters = {} THEN calls.base.employees[i][c]
        ELSE LET k == CHOOSE x \in setters : \A y \in setters : y <= x
             IN  Encode(EmployeeType[c], calls.slots[calls.order[k]].req.arg[c])

=============================================================================
